---------------------------- MODULE Spec2Model ----------------------------
(***************************************************************************)
(* Island-model genetic algorithm of halbacharray-GA.                      *)
(*                                                                         *)
(* Modelled: island_model and its worker tasks (evolve_island with the     *)
(* three DEAP strategies), migrate_island, count_duplicates, fieldError    *)
(* and the toolbox operators registered in setup_deap_toolbox.  The DEAP   *)
(* and multiprocessing library calls are modelled by what the library does *)
(* at the call site.  Island and gene indices are 1-based here, 0-based in *)
(* the Python source.                                                      *)
(*                                                                         *)
(* Spec is a run of island_model, SpecMig is migrate_island applied to     *)
(* lists of evaluated islands, SpecDet is a run of island_model followed   *)
(* by a second run on the same islands and random streams, SpecDup is      *)
(* count_duplicates applied to population snapshots, SpecEval is           *)
(* fieldError applied to gene lists and tables, SpecRound is a run of      *)
(* island_model on islands of two individuals, SpecAlias is migrate_island *)
(* on islands of objects with an identity.                                 *)
(***************************************************************************)
EXTENDS Integers, Sequences, FiniteSets, TLC

(***************************************************************************)
(* Bounds of the model.                                                    *)
(***************************************************************************)
\* island_model runs: the largest total population size popSim
MaxPopSim == 3
\* island_model runs: the largest number of islands
MaxIslands == 2
\* island_model runs: the largest num_generations
MaxGenerations == 2
\* island_model runs: the largest migration_interval
MaxInterval == 2
\* migrate_island on its own: the largest number of islands, the largest
\* island, and the largest number of individuals over all islands
MaxMigIslands == 3
MaxMigSize == 4
MaxMigTotal == 8
\* migrate_island on its own: the largest number of different genomes over
\* all islands
MaxMigGenomes == 3
\* count_duplicates on its own: the largest population snapshot and the
\* largest number of different genomes in it
MaxDupSize == 10
MaxDupGenomes == 2
\* island_model runs with islands of several individuals: the largest island
MaxRoundIsland == 2
\* migrate_island on islands of objects: the largest number of islands and
\* the largest island
MaxAliasIslands == 2
MaxAliasSize == 2
\* fieldError on its own: the longest gene list, how far outside the valid
\* configurations a gene is drawn, and the largest entry of a uniform table
MaxVectorLen == 3
MaxGeneExcess == 1
MaxEntry == 5

(***************************************************************************)
(* Small helpers.                                                          *)
(***************************************************************************)
Min2(a, b) == IF a <= b THEN a ELSE b
Abs(x) == IF x < 0 THEN -x ELSE x

RECURSIVE GCD(_, _)
GCD(a, b) == IF b = 0 THEN a ELSE GCD(b, a % b)

RECURSIVE SumSeq(_)
SumSeq(s) == IF s = <<>> THEN 0 ELSE Head(s) + SumSeq(Tail(s))

MaxOf(S) == CHOOSE x \in S : \A y \in S : y <= x
MinOf(S) == CHOOSE x \in S : \A y \in S : x <= y

\* all sequences of length n over the set S
SeqsOf(S, n) == [1..n -> S]

(***************************************************************************)
(* The Field Lookup Table and the fitness evaluator.                       *)
(*                                                                         *)
(* shared_data[s][p][c] is the field of configuration c at position p in   *)
(* sample s, here in units of 0.01 T so that the entries and T_target are  *)
(* integers.  Fitness values are exact fractions <<num, den>> in lowest    *)
(* terms, in the unit of the source (ppm-scaled error).                    *)
(***************************************************************************)
shared_data == << << <<4, 3>>, <<4, 5>> >>,
                  << <<4, 5>>, <<4, 4>> >> >>

sample_count == Len(shared_data)
num_positions == Len(shared_data[1])
num_rings_perm == Len(shared_data[1][1])

\* config.py: T_target = 0.08 (T), in units of 0.01 T
T_target == 8
\* config.py: homogeneity_weight = 0.8, field_strength_weight = 0.2, in tenths
homogeneity_weight == 8
field_strength_weight == 2
\* the factor 1e6 of both error terms
PPM == 1000000
\* 1e6 * 0.01 T: the factor of the strength error in table units
PPMPerUnit == 10000

Genes == 0..(num_rings_perm - 1)
Genomes == SeqsOf(Genes, num_positions)

\* outcomes of an evaluation that yields no usable number: the indexing
\* raised, or the mean field is zero (numpy divides to nan or inf)
Failure == <<"IndexError">>
NaN == <<"NaN">>

\* numpy indexing shared_data[:, idx1, c]: a negative c counts from the end
WrapIndex(c) == IF c < 0 THEN num_rings_perm + c ELSE c

\* the indexing raises IndexError: a position or a gene outside the table
IndexError(shimVector) ==
    \/ Len(shimVector) > num_positions
    \/ \E p \in 1..Len(shimVector) :
          shimVector[p] >= num_rings_perm \/ shimVector[p] < -num_rings_perm

\* field += shared_data[:, idx1, shimVector[idx1]], field starting as a
\* fresh array of zeros with one entry per sample
Field(shimVector, data) ==
    [s \in 1..sample_count |->
        SumSeq([p \in 1..Len(shimVector) |->
                   data[s][p][WrapIndex(shimVector[p]) + 1]])]

Frac(n, d) == LET g == GCD(n, d) IN <<n \div g, d \div g>>

\* a variant of the evaluator that relates the spread of the field to its
\* largest sample instead of its mean
fieldError_by_max(shimVector, data) ==
    IF IndexError(shimVector) THEN Failure
    ELSE LET field == Field(shimVector, data)
             vals  == {field[s] : s \in 1..sample_count}
             total == SumSeq(field)
             S     == sample_count
         IN IF total = 0 THEN NaN
            ELSE Frac(homogeneity_weight * (MaxOf(vals) - MinOf(vals)) * S * PPM
                        + field_strength_weight * Abs(total - T_target * S)
                            * MaxOf(vals) * PPMPerUnit,
                      10 * MaxOf(vals) * S)

\* total_error = hw * ((max - min) / mean) * 1e6 + sw * |mean - T_target| * 1e6
\* with mean = total / sample_count, as one fraction over 10 * total * sample_count
fieldError(shimVector, data) ==
    IF IndexError(shimVector) THEN Failure
    ELSE LET field == Field(shimVector, data)
             vals  == {field[s] : s \in 1..sample_count}
             total == SumSeq(field)
             S     == sample_count
         IN IF total = 0 THEN NaN
            ELSE Frac(homogeneity_weight * (MaxOf(vals) - MinOf(vals)) * S * S * PPM
                        + field_strength_weight * Abs(total - T_target * S)
                            * total * PPMPerUnit,
                      10 * total * S)

\* a variant in which field starts as the view shared_data[:, 0, 0] of the
\* table, so that += accumulates into the table's first column
FieldWritesView(shimVector, data) ==
    [s \in 1..sample_count |->
        [data[s] EXCEPT ![1][1] = @ + Field(shimVector, data)[s]]]

\* the table after a call of fieldError: lines 24-27 write only field, an
\* array of their own, and read shared_data
FieldWrites(shimVector, data) == data

\* the fitness of every genome (the evaluator is a pure function of the genome
\* and of the table, which is shared_data in every run of island_model)
FitnessOf == [g \in Genomes |-> fieldError(g, shared_data)]

\* toolbox.evaluate
evaluate(genes) ==
    IF genes \in Genomes THEN FitnessOf[genes] ELSE fieldError(genes, shared_data)

(***************************************************************************)
(* Individuals: a gene list with an attached fitness (creator.Individual). *)
(* fit = NoFit models an invalid (deleted or never set) fitness.           *)
(***************************************************************************)
NoFit == <<>>
Ind(genes, fit) == [genes |-> genes, fit |-> fit]
Evaluated(genes) == Ind(genes, evaluate(genes))
EvaluatedInds == {Evaluated(g) : g \in Genomes}

\* exact comparison of two fitness values (fractions)
ValueLess(a, b) == a[1] * b[2] < b[1] * a[2]
ValueLeq(a, b) == a[1] * b[2] <= b[1] * a[2]

\* deap.base.Fitness comparison with weights (-1.0,): a fitness is greater
\* (better) when its value is smaller
FitnessGreater(x, y) == ValueLess(x.fit, y.fit)

\* list.__eq__ of creator.Individual (a list subclass): the genes decide
IndEq(x, y) == x.genes = y.genes

(***************************************************************************)
(* tools.selBest / tools.selWorst: a stable sort by fitness, first k.      *)
(***************************************************************************)
\* sorted(individuals, key=fitness, reverse=True): ties keep their order
BestBefore(individuals, j, i) ==
    \/ FitnessGreater(individuals[j], individuals[i])
    \/ /\ ~FitnessGreater(individuals[i], individuals[j])
       /\ j < i

\* sorted(individuals, key=fitness): worst first, ties keep their order
WorstBefore(individuals, j, i) ==
    \/ FitnessGreater(individuals[i], individuals[j])
    \/ /\ ~FitnessGreater(individuals[j], individuals[i])
       /\ j < i

SortedBest(individuals) ==
    LET n == Len(individuals)
        rank(i) == 1 + Cardinality({j \in 1..n : BestBefore(individuals, j, i)})
    IN [r \in 1..n |-> individuals[CHOOSE i \in 1..n : rank(i) = r]]

SortedWorst(individuals) ==
    LET n == Len(individuals)
        rank(i) == 1 + Cardinality({j \in 1..n : WorstBefore(individuals, j, i)})
    IN [r \in 1..n |-> individuals[CHOOSE i \in 1..n : rank(i) = r]]

\* a function built once: TLC keeps a function constructor unevaluated until
\* the function is compared
Tabulated(f) == IF f = f THEN f ELSE f

\* the two sorts, tabulated once for the evaluated populations of the model
MaxSorted == IF MaxMigSize > MaxPopSim THEN MaxMigSize ELSE MaxPopSim
SortedTable ==
    Tabulated([individuals \in UNION {SeqsOf(EvaluatedInds, n) : n \in 0..MaxSorted} |->
                  <<SortedBest(individuals), SortedWorst(individuals)>>])

Sorted(individuals) ==
    IF individuals \in DOMAIN SortedTable THEN SortedTable[individuals]
    ELSE <<SortedBest(individuals), SortedWorst(individuals)>>

selBest(individuals, k) == SubSeq(Sorted(individuals)[1], 1, Min2(k, Len(individuals)))

\* a variant of selWorst that takes the first k individuals without sorting
selWorst_unsorted(individuals, k) == SubSeq(individuals, 1, Min2(k, Len(individuals)))

selWorst(individuals, k) == SubSeq(Sorted(individuals)[2], 1, Min2(k, Len(individuals)))

(***************************************************************************)
(* migrate_island.                                                         *)
(***************************************************************************)
\* a variant that rounds up, so that a tiny island still sends one migrant
NumMigrateCeil(rate, pops) == (rate * Len(pops[1]) + 9) \div 10

\* int(migration_rate * len(populations[0])), the rate in tenths
NumMigrate(rate, pops) == (rate * Len(pops[1])) \div 10

\* list.remove(x) can succeed: some element equals x
Contains(lst, x) == \E p \in 1..Len(lst) : IndEq(lst[p], x)

\* a faulty list.remove(x): drops every element equal to x
ListRemoveAll(lst, x) ==
    LET keep(y) == ~IndEq(y, x) IN SelectSeq(lst, keep)

\* list.remove(x): drop the first element equal to x
ListRemove(lst, x) ==
    LET p == MinOf({q \in 1..Len(lst) : IndEq(lst[q], x)})
    IN SubSeq(lst, 1, p - 1) \o SubSeq(lst, p + 1, Len(lst))

\* the inner loop, lines 40-42, from index j on
RECURSIVE Exchange(_, _, _, _, _)
Exchange(target, migrants, immigrants, j, k) ==
    IF j > k THEN target
    ELSE Exchange(Append(ListRemove(target, immigrants[j]), migrants[j]),
                  migrants, immigrants, j + 1, k)

\* the inner loop raises: remove finds no equal element (ValueError) or a
\* list index is out of range (IndexError)
RECURSIVE ExchangeRaises(_, _, _, _, _)
ExchangeRaises(target, migrants, immigrants, j, k) ==
    IF j > k THEN FALSE
    ELSE \/ j > Len(migrants)
         \/ j > Len(immigrants)
         \/ ~Contains(target, immigrants[j])
         \/ ExchangeRaises(Append(ListRemove(target, immigrants[j]), migrants[j]),
                           migrants, immigrants, j + 1, k)

\* a faulty ring: island i sends to (i - 1) % len(populations)
TargetPrev(i, n) == ((i + n - 2) % n) + 1

\* the island that island i sends to: (i + 1) % len(populations)
TargetOf(i, n) == (i % n) + 1

\* one iteration of the outer loop, lines 35-42: the target island afterwards
MigrateInto(pops, i, k) ==
    LET source_island == pops[i]
        target_island == pops[TargetOf(i, Len(pops))]
        migrants   == selBest(source_island, k)
        immigrants == selWorst(target_island, k)
    IN Exchange(target_island, migrants, immigrants, 1, k)

MigrateRaises(pops, i, k) ==
    ExchangeRaises(pops[TargetOf(i, Len(pops))], selBest(pops[i], k),
                   selWorst(pops[TargetOf(i, Len(pops))], k), 1, k)

(***************************************************************************)
(* count_duplicates.                                                       *)
(***************************************************************************)
\* line 21 divides by len(population): ZeroDivisionError on an empty one
ZeroDivisionError(population) == Len(population) = 0

\* Counter(tuple_population)[g]
CountOf(population, g) == Cardinality({p \in 1..Len(population) : population[p].genes = g})

\* a variant of the report that counts the gene sequences occurring more than
\* once instead of their surplus copies
count_duplicates_repeated(population) ==
    LET keys == {population[p].genes : p \in 1..Len(population)}
        duplicates == Cardinality({g \in keys : CountOf(population, g) > 1})
        total_population == Len(population)
    IN [total_population |-> total_population,
        unique_individuals |-> Cardinality(keys),
        duplicate_count |-> duplicates,
        duplicate_percentage |-> <<duplicates * 100, total_population>>]

\* the report of lines 23-28; duplicate_percentage is the exact fraction
\* <<duplicates * 100, total_population>>
count_duplicates(population) ==
    LET keys == {population[p].genes : p \in 1..Len(population)}
        multi == {g \in keys : CountOf(population, g) > 1}
        RECURSIVE SumOver(_)
        SumOver(S) == IF S = {} THEN 0
                      ELSE LET g == CHOOSE x \in S : TRUE
                           IN (CountOf(population, g) - 1) + SumOver(S \ {g})
        duplicates == SumOver(multi)
        total_population == Len(population)
    IN [total_population |-> total_population,
        unique_individuals |-> Cardinality(keys),
        duplicate_count |-> duplicates,
        duplicate_percentage |-> <<duplicates * 100, total_population>>]

\* collect_stats(pop, gen), lines 81-84: the report of count_duplicates with
\* its generation
collect_stats(population, generation) ==
    LET duplicate_info == count_duplicates(population)
    IN [total_population |-> duplicate_info.total_population,
        unique_individuals |-> duplicate_info.unique_individuals,
        duplicate_count |-> duplicate_info.duplicate_count,
        duplicate_percentage |-> duplicate_info.duplicate_percentage,
        generation |-> generation]

(***************************************************************************)
(* tools.HallOfFame(1): a list of at most one individual.                  *)
(***************************************************************************)
\* HallOfFame.update(population): an empty hall takes population[0]; later an
\* individual enters when its fitness is strictly better and its genes differ
RECURSIVE HofUpdate(_, _, _)
HofUpdate(hall, population, p) ==
    IF p > Len(population) THEN hall
    ELSE IF hall = <<>> THEN HofUpdate(<<population[1]>>, population, p + 1)
    ELSE IF FitnessGreater(population[p], hall[1]) /\ ~IndEq(population[p], hall[1])
         THEN HofUpdate(<<population[p]>>, population, p + 1)
         ELSE HofUpdate(hall, population, p + 1)

(***************************************************************************)
(* The toolbox of setup_deap_toolbox.                                      *)
(***************************************************************************)
\* config.py: CXPB, MUTPB = 0.6, 0.3 and indpb = 0.2, in tenths
CXPB == 6
MUTPB == 3
indpb == 2
\* tools.selTournament, tournsize=3
tournsize == 3
\* a test random.random() < p (p in tenths) can succeed / can fail
CanHit(p) == p > 0
CanMiss(p) == p < 10

\* a faulty generate_indices: random.randint(0, num_rings_perm)
generate_indices_inclusive == 0..num_rings_perm

\* generate_indices: random.randint(0, num_rings_perm - 1), both ends included
generate_indices == 0..(num_rings_perm - 1)

\* create_individual: num_positions genes, no fitness yet
create_individual == {Ind(g, NoFit) : g \in SeqsOf(generate_indices, num_positions)}

\* create_population(n)
create_population(n) == SeqsOf(create_individual, n)

\* max(aspirants, key=fitness): the first aspirant no other one beats
MaxFirst(aspirants) ==
    aspirants[MinOf({p \in 1..Len(aspirants) :
                        \A q \in 1..Len(aspirants) :
                            ~FitnessGreater(aspirants[q], aspirants[p])})]

\* one tournament of selTournament: tournsize draws with replacement
TournamentWinners(individuals) ==
    {MaxFirst([a \in 1..tournsize |-> individuals[idx[a]]]) :
        idx \in SeqsOf(1..Len(individuals), tournsize)}

\* toolbox.select(individuals, k): k independent tournaments
selTournament(individuals, k) == SeqsOf(TournamentWinners(individuals), k)

\* the cut points of tools.cxTwoPoint: cxpoint1 = randint(1, size),
\* cxpoint2 = randint(1, size - 1), then ordered as in the source
CxPoints(size) ==
    {IF c[2] >= c[1] THEN <<c[1], c[2] + 1>> ELSE <<c[2], c[1]>> :
        c \in (1..size) \X (1..(size - 1))}

\* ind1[cx1:cx2], ind2[cx1:cx2] = ind2[cx1:cx2], ind1[cx1:cx2]
SwapSlice(g1, g2, cx) ==
    [p \in 1..Len(g1) |-> IF p > cx[1] /\ p <= cx[2] /\ p <= Len(g2) THEN g2[p] ELSE g1[p]]

\* toolbox.mate on two gene lists: every pair of children it can return
cxTwoPoint(g1, g2) ==
    {<<SwapSlice(g1, g2, cx), SwapSlice(g2, g1, cx)>> :
        cx \in CxPoints(Min2(Len(g1), Len(g2)))}

\* toolbox.mutate = tools.mutUniformInt(low, up, indpb): each gene is kept or
\* redrawn with random.randint(low, up)
mutUniformInt(genes, low, up) ==
    {m \in SeqsOf(low..up \cup {genes[p] : p \in 1..Len(genes)}, Len(genes)) :
        \A p \in 1..Len(genes) :
            \/ m[p] = genes[p] /\ (CanMiss(indpb) \/ genes[p] \in low..up)
            \/ m[p] \in low..up /\ CanHit(indpb)}

\* toolbox.mutate with the registered bounds
mutate(genes) == mutUniformInt(genes, 0, num_rings_perm - 1)

\* evaluate the individuals with an invalid fitness
EvaluateInvalid(ind) == IF ind.fit = NoFit THEN Evaluated(ind.genes) ELSE ind
EvaluateAll(population) == [p \in 1..Len(population) |-> EvaluateInvalid(population[p])]

(***************************************************************************)
(* algorithms.varAnd and algorithms.varOr, by the outcomes they can have.  *)
(***************************************************************************)
\* the mutation loop of varAnd on one individual: mutated with probability
\* mutpb (fitness deleted), else left alone
VarAndMutate(ind) ==
    (IF CanMiss(MUTPB) THEN {ind} ELSE {})
    \cup (IF CanHit(MUTPB) THEN {Ind(m, NoFit) : m \in mutate(ind.genes)} ELSE {})

\* the crossover loop of varAnd on one pair: mated with probability cxpb
VarAndMate(a, b) ==
    (IF CanMiss(CXPB) THEN {<<a, b>>} ELSE {})
    \cup (IF CanHit(CXPB)
          THEN {<<Ind(c[1], NoFit), Ind(c[2], NoFit)>> : c \in cxTwoPoint(a.genes, b.genes)}
          ELSE {})

\* select + varAnd + evaluation for the offspring pair (i-1, i): the two
\* parents are tournament winners, the pair is mated, each child mutated
EaSimplePair(population) ==
    LET winners == TournamentWinners(population)
    IN UNION {UNION {{<<EvaluateInvalid(x), EvaluateInvalid(y)>> :
                        x \in VarAndMutate(m[1]), y \in VarAndMutate(m[2])} :
                     m \in VarAndMate(a, b)} :
              a \in winners, b \in winners}

\* the same for the last offspring of an odd-sized population, which has no
\* partner in the crossover loop
EaSimpleLast(population) ==
    UNION {{EvaluateInvalid(x) : x \in VarAndMutate(a)} :
           a \in TournamentWinners(population)}

\* the offspring lists one generation of eaSimple can produce
EaSimpleOffspring(population) ==
    LET n == Len(population)
        pairs == SeqsOf(EaSimplePair(population), n \div 2)
        lasts == IF n % 2 = 1 THEN {<<x>> : x \in EaSimpleLast(population)} ELSE {<<>>}
    IN {[p \in 1..n |-> IF p > 2 * (n \div 2) THEN l[1]
                        ELSE pr[(p + 1) \div 2][2 - (p % 2)]] :
           pr \in pairs, l \in lasts}

\* one offspring of varOr: crossover of two sampled parents (first child
\* kept), mutation of a chosen parent, or a chosen parent itself
VarOrOne(population) ==
    LET n == Len(population)
    IN (IF CanHit(CXPB) /\ n >= 2
        THEN UNION {{Ind(c[1], NoFit) : c \in cxTwoPoint(population[ab[1]].genes,
                                                         population[ab[2]].genes)} :
                    ab \in {x \in (1..n) \X (1..n) : x[1] # x[2]}}
        ELSE {})
       \cup (IF CanHit(MUTPB)
             THEN UNION {{Ind(m, NoFit) : m \in mutate(population[a].genes)} : a \in 1..n}
             ELSE {})
       \cup (IF CXPB + MUTPB < 10 THEN {population[a] : a \in 1..n} ELSE {})

(***************************************************************************)
(* The state of a run of island_model.                                     *)
(***************************************************************************)
VARIABLES
    popSim,              \* configured total population size
    num_islands,         \* configured number of islands
    num_generations,     \* configured total number of generations
    migration_interval,  \* configured generations per round
    selected_algorithm,  \* configured strategy name
    migration_rate,      \* migrate_island's migration_rate, in tenths
    pc,                  \* where the coordinator is
    gen,                 \* the loop variable of line 145
    populations,         \* the list of islands
    logs,                \* the logbooks collected so far
    all_duplicate_stats, \* the duplicate reports collected so far
    hof,                 \* island_model's hall of fame
    tasks,               \* the pool's tasks of the current round, one per island
    num_migrate,         \* migrate_island's num_migrate
    mi,                  \* migrate_island's loop variable i
    result,              \* what island_model returned
    pre,                 \* history: the islands as passed to migrate_island
    observed,            \* history: the best fitness value evaluated so far
    rng,                 \* replayed runs: each pool worker's random stream
    trace,               \* replayed runs: history of what this run drew
    first,               \* replayed runs: history of the first run
    table,               \* the Field Lookup Table held by the program
    individual,          \* fieldError on its own: the genome being evaluated
    fitness              \* fieldError on its own: what the evaluation returned

vars == <<popSim, num_islands, num_generations, migration_interval,
          selected_algorithm, migration_rate, pc, gen, populations, logs,
          all_duplicate_stats, hof, tasks, num_migrate, mi, result, pre, observed,
          rng, trace, first, table, individual, fitness>>

replay == <<rng, trace, first>>

evaluator == <<table, individual, fitness>>

config == <<popSim, num_islands, num_generations, migration_interval,
            selected_algorithm, migration_rate>>

Algorithms == {"eaSimple", "eaMuPlusLambda", "eaMuCommaLambda"}

\* evolve_island: mu and lambda_ of the two (mu, lambda) strategies.  The
\* source fixes mu=5000 with lambda_=3000 (plus) and lambda_=5000 (comma),
\* whatever the island's size; the model scales them down to one individual.
Mu == 1
LambdaPlus == 1
LambdaComma == 1

\* migrate_island's default migration_rate=0.3, in tenths
DefaultMigrationRate == 3

\* island_model has not returned; no fitness value yet
NoResult == <<>>
None == <<>>

\* the smaller of two fitness values, None being no value yet
BetterValue(a, b) == IF a = None THEN b ELSE IF b = None THEN a
                     ELSE IF ValueLeq(a, b) THEN a ELSE b

\* the best value among the fitness values of a list of evaluated individuals
RECURSIVE BestValue(_)
BestValue(population) ==
    IF population = <<>> THEN None
    ELSE BetterValue(Head(population).fit, BestValue(Tail(population)))

HasFailure(population) ==
    \E p \in 1..Len(population) : population[p].fit \in {Failure, NaN}

\* a task of the pool: err is the exception that left the call, if one did
Task(st, pop, log, dup) ==
    [st |-> st, pop |-> pop, log |-> log, dup |-> dup, err |-> "none"]

\* what a call of a strategy has produced so far: the population, and the
\* best fitness value it has evaluated (st = "raised": an exception left it)
Outcome(st, pop, best) == [st |-> st, pop |-> pop, best |-> best, err |-> "none"]

\* the call was left by the exception err
Raise(err, pop, best) == [st |-> "raised", pop |-> pop, best |-> best, err |-> err]

\* algorithms.eaSimple, one generation: offspring = select, varAnd; evaluate;
\* halloffame.update(offspring); population[:] = offspring
EaSimpleGeneration(o) ==
    {IF HasFailure(offspring) THEN Raise("IndexError", o.pop, o.best)
     ELSE Outcome("returned", offspring, BetterValue(o.best, BestValue(offspring))) :
        offspring \in EaSimpleOffspring(o.pop)}

\* varOr raises: its assert on cxpb + mutpb, or random.sample(population, 2)
\* on a population of fewer than two
VarOrRaises(population) ==
    \/ CXPB + MUTPB > 10
    \/ CanHit(CXPB) /\ Len(population) < 2

\* algorithms.eaMuPlusLambda: select(population + offspring, mu)
PlusPool(population, offspring) == population \o offspring

\* algorithms.eaMuCommaLambda: select(offspring, mu)
CommaPool(population, offspring) == offspring

\* a generation of a (mu, lambda) strategy: lambda_ offspring from varOr,
\* evaluated; then population[:] = toolbox.select(pool, mu), the pool being
\* that of the plus or of the comma strategy
MuLambdaGeneration(o, lambda_, plus) ==
    (IF VarOrRaises(o.pop) THEN {Raise("ValueError", o.pop, o.best)} ELSE {})
    \cup UNION {LET offspring == EvaluateAll(varied)
                    pool == IF plus THEN PlusPool(o.pop, offspring)
                            ELSE CommaPool(o.pop, offspring)
                IN IF HasFailure(offspring) THEN {Raise("IndexError", o.pop, o.best)}
                   ELSE {Outcome("returned", population,
                                 BetterValue(o.best, BestValue(offspring))) :
                            population \in selTournament(pool, Mu)} :
                varied \in SeqsOf(VarOrOne(o.pop), lambda_)}

EaMuPlusLambdaGeneration(o) == MuLambdaGeneration(o, LambdaPlus, TRUE)
EaMuCommaLambdaGeneration(o) == MuLambdaGeneration(o, LambdaComma, FALSE)

\* one generation of the strategy named algorithm
Generation(algorithm, o) ==
    IF o.st = "raised" THEN {o}
    ELSE IF algorithm = "eaSimple" THEN EaSimpleGeneration(o)
    ELSE IF algorithm = "eaMuPlusLambda" THEN EaMuPlusLambdaGeneration(o)
    ELSE EaMuCommaLambdaGeneration(o)

\* the evaluated populations an island can hold
MaxIslandSize == MaxOf({MaxPopSim, MaxRoundIsland, Mu})
EvaluatedPopulations == UNION {SeqsOf(EvaluatedInds, n) : n \in 1..MaxIslandSize}

\* Generation, tabulated once per strategy and population
GenerationTable ==
    Tabulated([k \in Algorithms \X EvaluatedPopulations |->
                  Generation(k[1], Outcome("returned", k[2], None))])

\* one generation from the outcome o, read from the table
TabulatedGeneration(algorithm, o) ==
    IF o.st = "raised" THEN {o}
    ELSE {Outcome(x.st, x.pop, BetterValue(o.best, x.best)) :
             x \in GenerationTable[<<algorithm, o.pop>>]}

\* the generation loop of a strategy: ngen generations from the outcomes os
RECURSIVE Generations(_, _, _)
Generations(algorithm, os, ngen) ==
    IF ngen = 0 THEN os
    ELSE Generations(algorithm,
                     UNION {TabulatedGeneration(algorithm, o) : o \in os}, ngen - 1)

\* the strategy's loop from an evaluated population, tabulated once
StrategyTable ==
    Tabulated([k \in Algorithms \X (1..MaxInterval) \X EvaluatedPopulations |->
                  Generations(k[1], {Outcome("returned", k[3], BestValue(k[3]))}, k[2])])

\* evolve_island(pop, ngen, ..., algorithm), lines 75-101: the duplicate
\* report of generation 0 (line 87, dividing by the island's size), the
\* dispatch on the strategy name (lines 89-101), the strategy's prologue
\* (its assert, the evaluation of the invalid individuals) and its generations
evolve_island(pop, ngen, algorithm) ==
    IF ZeroDivisionError(pop) THEN {Raise("ZeroDivisionError", pop, None)}
    ELSE IF algorithm \notin Algorithms THEN {Raise("ValueError", pop, None)}
    ELSE IF algorithm = "eaMuCommaLambda" /\ LambdaComma < Mu
    THEN {Raise("AssertionError", pop, None)}
    ELSE IF HasFailure(EvaluateAll(pop)) THEN {Raise("IndexError", pop, None)}
    ELSE StrategyTable[<<algorithm, ngen, EvaluateAll(pop)>>]

\* the logbook of a strategy after ngen generations: records 0..ngen
Logbook(ngen) == [g \in 1..(ngen + 1) |-> [gen |-> g - 1]]

Raised(t, err) == [t EXCEPT !.st = "raised", !.err = err]

Init ==
    /\ popSim \in 1..MaxPopSim
    /\ num_islands \in 1..MaxIslands
    /\ num_generations \in 1..MaxGenerations
    /\ migration_interval \in 1..MaxInterval
    /\ selected_algorithm \in Algorithms \cup {"unknown"}
    /\ migration_rate = DefaultMigrationRate
    /\ pc = "start"
    /\ gen = 0
    /\ populations = <<>>
    /\ logs = <<>>
    /\ all_duplicate_stats = <<>>
    /\ hof = <<>>
    /\ tasks = <<>>
    /\ num_migrate = 0
    /\ mi = 0
    /\ result = NoResult
    /\ pre = <<>>
    /\ observed = None
    /\ rng = <<>>
    /\ trace = <<>>
    /\ first = <<>>
    /\ table = shared_data
    /\ individual = <<>>
    /\ fitness = NoFit

\* line 140: one random population of popSim // num_islands per island
Partition ==
    /\ pc = "start"
    /\ populations' \in SeqsOf(create_population(popSim \div num_islands), num_islands)
    /\ pc' = "loop"
    /\ UNCHANGED <<config, evaluator, replay, gen, logs, all_duplicate_stats, hof, tasks, num_migrate,
                   mi, result, pre, observed>>

\* lines 145-149: a pool with one task per island, each with a copy of the island
FanOut ==
    /\ pc = "loop"
    /\ gen < num_generations
    /\ tasks' = [i \in 1..Len(populations) |->
                    Task("queued", populations[i], <<>>, <<>>)]
    /\ pc' = "map"
    /\ pre' = <<>>
    /\ UNCHANGED <<config, evaluator, replay, gen, populations, logs, all_duplicate_stats, hof,
                   num_migrate, mi, result, observed>>

\* evolve_island_wrapper in a pool worker, for island i: the whole call of
\* evolve_island, lines 75-106, on the worker's copy of the island
EvolveIsland(i) ==
    /\ pc = "map"
    /\ i \in 1..Len(tasks)
    /\ tasks[i].st = "queued"
    /\ \E o \in evolve_island(tasks[i].pop, migration_interval, selected_algorithm) :
          /\ tasks' = [tasks EXCEPT ![i] =
                          IF o.st = "raised" THEN Raised(tasks[i], o.err)
                          ELSE Task("returned", o.pop, Logbook(migration_interval),
                                    <<collect_stats(tasks[i].pop, 0),
                                      collect_stats(o.pop, migration_interval)>>)]
          /\ observed' = BetterValue(observed, o.best)
    /\ UNCHANGED <<config, evaluator, replay, pc, gen, populations, logs, all_duplicate_stats, hof,
                   num_migrate, mi, result, pre>>

\* a faulty fan-in: a task that raised is given its island back unevolved
FanInLenient ==
    /\ pc = "map"
    /\ \A i \in 1..Len(tasks) : tasks[i].st \in {"returned", "raised"}
    /\ LET results == [i \in 1..Len(tasks) |-> EvaluateAll(tasks[i].pop)]
       IN /\ populations' = results
          /\ pre' = results
          /\ num_migrate' = NumMigrate(migration_rate, results)
    /\ logs' = logs \o [i \in 1..Len(tasks) |-> tasks[i].log]
    /\ all_duplicate_stats' = all_duplicate_stats \o [i \in 1..Len(tasks) |-> tasks[i].dup]
    /\ tasks' = <<>>
    /\ mi' = 1
    /\ pc' = "migrate"
    /\ UNCHANGED <<config, evaluator, replay, gen, hof, result, observed>>

\* a faulty fan-in that collects the results from the last task to the first
FanInReversed ==
    /\ pc = "map"
    /\ \A i \in 1..Len(tasks) : tasks[i].st = "returned"
    /\ LET results == [i \in 1..Len(tasks) |-> tasks[Len(tasks) + 1 - i]]
       IN /\ populations' = [i \in 1..Len(tasks) |-> results[i].pop]
          /\ pre' = [i \in 1..Len(tasks) |-> results[i].pop]
          /\ num_migrate' = NumMigrate(migration_rate,
                                      [i \in 1..Len(tasks) |-> results[i].pop])
          /\ logs' = logs \o [i \in 1..Len(tasks) |-> results[i].log]
          /\ all_duplicate_stats' =
                all_duplicate_stats \o [i \in 1..Len(tasks) |-> results[i].dup]
    /\ tasks' = <<>>
    /\ mi' = 1
    /\ pc' = "migrate"
    /\ UNCHANGED <<config, evaluator, replay, gen, hof, result, observed>>

\* a faulty fan-in that does not wait: as soon as one task has returned and
\* none has raised, the islands still evolving are taken as they were sent
FanInEarly ==
    /\ pc = "map"
    /\ \E i \in 1..Len(tasks) : tasks[i].st = "returned"
    /\ \A i \in 1..Len(tasks) : tasks[i].st # "raised"
    /\ LET results == [i \in 1..Len(tasks) |-> EvaluateAll(tasks[i].pop)]
       IN /\ populations' = results
          /\ pre' = results
          /\ num_migrate' = NumMigrate(migration_rate, results)
    /\ logs' = logs \o [i \in 1..Len(tasks) |-> tasks[i].log]
    /\ all_duplicate_stats' = all_duplicate_stats \o [i \in 1..Len(tasks) |-> tasks[i].dup]
    /\ tasks' = <<>>
    /\ mi' = 1
    /\ pc' = "migrate"
    /\ UNCHANGED <<config, evaluator, replay, gen, hof, result, observed>>

\* lines 149-156: pool.map returned every task's result, in island order; the
\* results replace the islands and migrate_island is entered (line 32)
FanIn ==
    /\ pc = "map"
    /\ \A i \in 1..Len(tasks) : tasks[i].st = "returned"
    /\ LET results == [i \in 1..Len(tasks) |-> tasks[i].pop]
       IN /\ populations' = results
          /\ pre' = results
          /\ num_migrate' = NumMigrate(migration_rate, results)
    /\ logs' = logs \o [i \in 1..Len(tasks) |-> tasks[i].log]
    /\ all_duplicate_stats' = all_duplicate_stats \o [i \in 1..Len(tasks) |-> tasks[i].dup]
    /\ tasks' = <<>>
    /\ mi' = 1
    /\ pc' = "migrate"
    /\ UNCHANGED <<config, evaluator, replay, gen, hof, result, observed>>

\* line 149: pool.map re-raises a task's exception; nothing catches it
FanInRaise ==
    /\ pc = "map"
    /\ \E i \in 1..Len(tasks) : tasks[i].st = "raised"
    /\ pc' = "failed"
    /\ UNCHANGED <<config, evaluator, replay, gen, populations, logs, all_duplicate_stats, hof, tasks,
                   num_migrate, mi, result, pre, observed>>

\* migrate_island, lines 34-42, one iteration of the outer loop
MigrateStep ==
    /\ pc = "migrate"
    /\ mi <= Len(populations)
    /\ LET target == MigrateInto(populations, mi, num_migrate)
       IN IF MigrateRaises(populations, mi, num_migrate)
          THEN /\ pc' = "failed"
               /\ UNCHANGED <<populations, mi>>
          ELSE /\ populations' = [populations EXCEPT ![TargetOf(mi, Len(populations))] = target]
               /\ mi' = mi + 1
               /\ pc' = pc
    /\ UNCHANGED <<config, evaluator, replay, gen, logs, all_duplicate_stats, hof, tasks, num_migrate,
                   result, pre, observed>>

\* migrate_island returns (line 44) and the round ends (line 145)
MigrateReturn ==
    /\ pc = "migrate"
    /\ mi > Len(populations)
    /\ gen' = gen + migration_interval
    /\ pc' = "loop"
    /\ UNCHANGED <<config, evaluator, replay, populations, logs, all_duplicate_stats, hof, tasks,
                   num_migrate, mi, result, pre, observed>>

\* a faulty choice of the best individual: the first island's best
FirstOf(inds) == inds[1]

\* min(best_individuals, key=fitness.values): the first of the smallest value
MinFirst(inds) ==
    inds[MinOf({p \in 1..Len(inds) :
                   \A q \in 1..Len(inds) : ValueLeq(inds[p].fit, inds[q].fit)})]

RECURSIVE Flatten(_)
Flatten(ss) == IF ss = <<>> THEN <<>> ELSE Head(ss) \o Flatten(Tail(ss))

\* lines 158-166: the combined log, the best of the islands' bests, return
Finalize ==
    /\ pc = "loop"
    /\ gen >= num_generations
    /\ IF \E i \in 1..Len(populations) : populations[i] = <<>>
       THEN /\ pc' = "failed"
            /\ UNCHANGED <<hof, result>>
       ELSE LET best_individuals == [i \in 1..Len(populations) |->
                                        selBest(populations[i], 1)[1]]
                best_individual == MinFirst(best_individuals)
                hall == HofUpdate(hof, <<best_individual>>, 1)
            IN /\ hof' = hall
               /\ result' = <<[populations |-> populations,
                              combined_log |-> Flatten(logs),
                              hof |-> hall,
                              all_duplicate_stats |-> all_duplicate_stats]>>
               /\ pc' = "done"
    /\ UNCHANGED <<config, evaluator, replay, gen, populations, logs, all_duplicate_stats, tasks,
                   num_migrate, mi, pre, observed>>

Next ==
    \/ Partition
    \/ FanOut
    \/ \E i \in 1..MaxIslands : EvolveIsland(i)
    \/ FanIn
    \/ FanInRaise
    \/ MigrateStep
    \/ MigrateReturn
    \/ Finalize

Spec == Init /\ [][Next]_vars

(***************************************************************************)
(* Runs of island_model on MaxIslands islands of several individuals each, *)
(* with a migration after every generation.                                *)
(***************************************************************************)
InitRound ==
    /\ num_islands = MaxIslands
    /\ popSim \in {num_islands * size : size \in 2..MaxRoundIsland}
    /\ num_generations \in 1..MaxGenerations
    /\ migration_interval = 1
    /\ selected_algorithm \in Algorithms \cup {"unknown"}
    /\ migration_rate = DefaultMigrationRate
    /\ pc = "start"
    /\ gen = 0
    /\ populations = <<>>
    /\ logs = <<>>
    /\ all_duplicate_stats = <<>>
    /\ hof = <<>>
    /\ tasks = <<>>
    /\ num_migrate = 0
    /\ mi = 0
    /\ result = NoResult
    /\ pre = <<>>
    /\ observed = None
    /\ rng = <<>>
    /\ trace = <<>>
    /\ first = <<>>
    /\ table = shared_data
    /\ individual = <<>>
    /\ fitness = NoFit

SpecRound == InitRound /\ [][Next]_vars

(***************************************************************************)
(* migrate_island on its own: the run is entered where a round's fan-in    *)
(* has handed a list of evaluated islands of one size to migrate_island,   *)
(* with migration_rate 0.3 (the default island_model uses) or 0.5.         *)
(***************************************************************************)
MigrationRates == {DefaultMigrationRate, 5}

InitMig ==
    /\ num_islands \in 1..MaxMigIslands
    /\ \E size \in 1..MaxMigSize :
          /\ num_islands * size <= MaxMigTotal
          /\ popSim = num_islands * size
          /\ \E held \in SUBSET EvaluatedInds :
                /\ Cardinality(held) = Min2(MaxMigGenomes, Cardinality(EvaluatedInds))
                /\ populations \in SeqsOf(SeqsOf(held, size), num_islands)
    /\ migration_rate \in MigrationRates
    /\ num_generations = 1
    /\ migration_interval = 1
    /\ selected_algorithm = "eaSimple"
    /\ pc = "migrate"
    /\ gen = 0
    /\ logs = [i \in 1..num_islands |-> Logbook(1)]
    /\ all_duplicate_stats = [i \in 1..num_islands |->
                                 <<collect_stats(populations[i], 0),
                                   collect_stats(populations[i], 1)>>]
    /\ hof = <<>>
    /\ tasks = <<>>
    /\ num_migrate = NumMigrate(migration_rate, populations)
    /\ mi = 1
    /\ result = NoResult
    /\ pre = populations
    /\ observed = BestValue(Flatten(populations))
    /\ rng = <<>>
    /\ trace = <<>>
    /\ first = <<>>
    /\ table = shared_data
    /\ individual = <<>>
    /\ fitness = NoFit

NextMig ==
    \/ MigrateStep
    \/ MigrateReturn

SpecMig == InitMig /\ [][NextMig]_vars

(***************************************************************************)
(* count_duplicates on its own: one call on a population snapshot.  The    *)
(* snapshot is populations[1]; the report is stored as the only entry of   *)
(* all_duplicate_stats.  An empty snapshot divides by zero at line 21.     *)
(***************************************************************************)
InitDup ==
    /\ \E size \in 0..MaxDupSize :
          /\ popSim = size
          /\ \E held \in SUBSET Genomes :
                /\ Cardinality(held) = Min2(MaxDupGenomes, Cardinality(Genomes))
                /\ \E snapshot \in SeqsOf({Evaluated(g) : g \in held}, size) :
                      populations = <<snapshot>>
    /\ num_islands = 1
    /\ num_generations = 1
    /\ migration_interval = 1
    /\ selected_algorithm = "eaSimple"
    /\ migration_rate = DefaultMigrationRate
    /\ pc = "count"
    /\ gen = 0
    /\ logs = <<>>
    /\ all_duplicate_stats = <<>>
    /\ hof = <<>>
    /\ tasks = <<>>
    /\ num_migrate = 0
    /\ mi = 0
    /\ result = NoResult
    /\ pre = <<>>
    /\ observed = None
    /\ rng = <<>>
    /\ trace = <<>>
    /\ first = <<>>
    /\ table = shared_data
    /\ individual = <<>>
    /\ fitness = NoFit

\* lines 7-28: the call returns the report
CountDuplicates ==
    /\ pc = "count"
    /\ ~ZeroDivisionError(populations[1])
    /\ all_duplicate_stats' = << <<count_duplicates(populations[1])>> >>
    /\ pc' = "counted"
    /\ UNCHANGED <<config, evaluator, replay, gen, populations, logs, hof, tasks,
                   num_migrate, mi, result, pre, observed>>

\* line 21: total_population is 0 and the division raises
CountDuplicatesRaise ==
    /\ pc = "count"
    /\ ZeroDivisionError(populations[1])
    /\ pc' = "failed"
    /\ UNCHANGED <<config, evaluator, replay, gen, populations, logs,
                   all_duplicate_stats, hof, tasks, num_migrate, mi, result, pre,
                   observed>>

NextDup ==
    \/ CountDuplicates
    \/ CountDuplicatesRaise

SpecDup == InitDup /\ [][NextDup]_vars

(***************************************************************************)
(* fieldError on its own: one call on a gene list and a table.  The gene   *)
(* list is any list of integers (the function accepts what it is given);   *)
(* the table is shared_data or a table with one value in every entry.      *)
(***************************************************************************)
UniformTable(c) ==
    [s \in 1..sample_count |-> [p \in 1..num_positions |->
        [k \in 1..num_rings_perm |-> c]]]

Tables == {shared_data} \cup {UniformTable(c) : c \in 0..MaxEntry}

GeneInputs == (-num_rings_perm - MaxGeneExcess)..(num_rings_perm - 1 + MaxGeneExcess)

InitEval ==
    /\ table \in Tables
    /\ \E n \in 0..MaxVectorLen : individual \in SeqsOf(GeneInputs, n)
    /\ fitness = NoFit
    /\ popSim = 1
    /\ num_islands = 1
    /\ num_generations = 1
    /\ migration_interval = 1
    /\ selected_algorithm = "eaSimple"
    /\ migration_rate = DefaultMigrationRate
    /\ pc = "evaluate"
    /\ gen = 0
    /\ populations = <<>>
    /\ logs = <<>>
    /\ all_duplicate_stats = <<>>
    /\ hof = <<>>
    /\ tasks = <<>>
    /\ num_migrate = 0
    /\ mi = 0
    /\ result = NoResult
    /\ pre = <<>>
    /\ observed = None
    /\ rng = <<>>
    /\ trace = <<>>
    /\ first = <<>>

\* lines 24-39: the loop over the gene list indexes the table without a
\* failure and the call returns total_error
FieldErrorReturn ==
    /\ pc = "evaluate"
    /\ ~IndexError(individual)
    /\ fitness' = fieldError(individual, table)
    /\ table' = FieldWrites(individual, table)
    /\ pc' = "evaluated"
    /\ UNCHANGED <<config, replay, individual, gen, populations, logs,
                   all_duplicate_stats, hof, tasks, num_migrate, mi, result, pre,
                   observed>>

\* line 27: the indexing raises IndexError and nothing is returned
FieldErrorRaise ==
    /\ pc = "evaluate"
    /\ IndexError(individual)
    /\ pc' = "failed"
    /\ UNCHANGED <<config, evaluator, replay, gen, populations, logs,
                   all_duplicate_stats, hof, tasks, num_migrate, mi, result, pre,
                   observed>>

NextEval ==
    \/ FieldErrorReturn
    \/ FieldErrorRaise

SpecEval == InitEval /\ [][NextEval]_vars

(***************************************************************************)
(* migrate_island on islands of objects, followed by the end of            *)
(* island_model.  An individual is an object: id is its identity (its      *)
(* address), which a reference keeps and only a copy would change.  The    *)
(* islands passed in are those pool.map returned: every island was         *)
(* unpickled on its own, so no object is in two of them.                   *)
(***************************************************************************)
Object(ind, id) == [genes |-> ind.genes, fit |-> ind.fit, id |-> id]

InitAlias ==
    /\ num_islands \in 2..MaxAliasIslands
    /\ \E size \in 1..MaxAliasSize :
          /\ popSim = num_islands * size
          /\ \E islands \in SeqsOf(SeqsOf(EvaluatedInds, size), num_islands) :
                populations = [i \in 1..num_islands |->
                                  [p \in 1..size |->
                                      Object(islands[i][p], (i - 1) * size + p)]]
    /\ migration_rate \in MigrationRates
    /\ num_generations = 1
    /\ migration_interval = 1
    /\ selected_algorithm = "eaSimple"
    /\ pc = "migrate"
    /\ gen = 0
    /\ logs = [i \in 1..num_islands |-> Logbook(1)]
    /\ all_duplicate_stats = [i \in 1..num_islands |->
                                 <<collect_stats(populations[i], 0),
                                   collect_stats(populations[i], 1)>>]
    /\ hof = <<>>
    /\ tasks = <<>>
    /\ num_migrate = NumMigrate(migration_rate, populations)
    /\ mi = 1
    /\ result = NoResult
    /\ pre = populations
    /\ observed = BestValue(Flatten(populations))
    /\ rng = <<>>
    /\ trace = <<>>
    /\ first = <<>>
    /\ table = shared_data
    /\ individual = <<>>
    /\ fitness = NoFit

NextAlias ==
    \/ MigrateStep
    \/ MigrateReturn
    \/ Finalize

SpecAlias == InitAlias /\ [][NextAlias]_vars

(***************************************************************************)
(* Two runs of island_model, one after the other, on the same              *)
(* configuration, the same initial islands and the same random streams.    *)
(* The source seeds nothing: a stream belongs to a pool worker process     *)
(* (the random module's state of that process), the pool of a round has    *)
(* num_islands workers, and a task runs on whichever worker takes it.  The *)
(* second run is given the worker streams the first run had.               *)
(***************************************************************************)
\* the streams a worker process can start with
MaxSeed == 1
Seeds == 0..MaxSeed

\* the outcome a stream in state k draws from the outcomes S of a call
RECURSIVE Pick(_, _)
Pick(S, k) ==
    LET x == CHOOSE y \in S : TRUE
    IN IF k = 0 \/ S = {x} THEN x ELSE Pick(S \ {x}, k - 1)

\* the stream after a call has drawn from it
Advance(k) == (k + 1) % (MaxSeed + 1)

\* line 140, the first run with fresh islands, the second with the same ones
DetPartition ==
    /\ pc = "start"
    /\ IF first = <<>>
       THEN populations' \in SeqsOf(create_population(popSim \div num_islands), num_islands)
       ELSE populations' = first.initial
    /\ trace' = [initial |-> populations', tape |-> <<>>]
    /\ pc' = "loop"
    /\ UNCHANGED <<config, evaluator, rng, first, gen, logs, all_duplicate_stats, hof, tasks,
                   num_migrate, mi, result, pre, observed>>

\* lines 145-149: the round's pool of num_islands workers, each with a stream
DetFanOut ==
    /\ pc = "loop"
    /\ gen < num_generations
    /\ tasks' = [i \in 1..Len(populations) |->
                    Task("queued", populations[i], <<>>, <<>>)]
    /\ IF first = <<>>
       THEN rng' \in SeqsOf(Seeds, num_islands)
       ELSE rng' = first.tape[Len(trace.tape) + 1]
    /\ trace' = [trace EXCEPT !.tape = Append(trace.tape, rng')]
    /\ pc' = "map"
    /\ pre' = <<>>
    /\ UNCHANGED <<config, evaluator, first, gen, populations, logs, all_duplicate_stats, hof,
                   num_migrate, mi, result, observed>>

\* evolve_island_wrapper for island i in pool worker w: the call draws from
\* the worker's stream
DetEvolveIsland(i, w) ==
    /\ pc = "map"
    /\ i \in 1..Len(tasks)
    /\ w \in 1..Len(rng)
    /\ tasks[i].st = "queued"
    /\ LET o == Pick(evolve_island(tasks[i].pop, migration_interval, selected_algorithm),
                     rng[w])
       IN /\ tasks' = [tasks EXCEPT ![i] =
                          IF o.st = "raised" THEN Raised(tasks[i], o.err)
                          ELSE Task("returned", o.pop, Logbook(migration_interval),
                                    <<collect_stats(tasks[i].pop, 0),
                                      collect_stats(o.pop, migration_interval)>>)]
          /\ observed' = BetterValue(observed, o.best)
    /\ rng' = [rng EXCEPT ![w] = Advance(rng[w])]
    /\ UNCHANGED <<config, evaluator, trace, first, pc, gen, populations, logs,
                   all_duplicate_stats, hof, num_migrate, mi, result, pre>>

\* the caller runs island_model again once the first run has returned
Rerun ==
    /\ pc = "done"
    /\ first = <<>>
    /\ first' = [initial |-> trace.initial,
                 tape |-> trace.tape,
                 populations |-> result[1].populations,
                 combined_log |-> result[1].combined_log]
    /\ pc' = "start"
    /\ gen' = 0
    /\ populations' = <<>>
    /\ logs' = <<>>
    /\ all_duplicate_stats' = <<>>
    /\ hof' = <<>>
    /\ tasks' = <<>>
    /\ num_migrate' = 0
    /\ mi' = 0
    /\ result' = NoResult
    /\ pre' = <<>>
    /\ observed' = None
    /\ rng' = <<>>
    /\ trace' = <<>>
    /\ UNCHANGED <<config, evaluator>>

NextDet ==
    \/ DetPartition
    \/ DetFanOut
    \/ \E i \in 1..MaxIslands, w \in 1..MaxIslands : DetEvolveIsland(i, w)
    \/ FanIn
    \/ FanInRaise
    \/ MigrateStep
    \/ MigrateReturn
    \/ Finalize
    \/ Rerun

SpecDet == Init /\ [][NextDet]_vars

(***************************************************************************)
(* Properties.                                                             *)
(***************************************************************************)
\* the number of occurrences of x in the list lst
Count(lst, x) == Cardinality({p \in 1..Len(lst) : lst[p] = x})

IslandSizes == [i \in 1..Len(populations) |-> Len(populations[i])]

SomeRaised == \E i \in 1..Len(tasks) : tasks[i].st = "raised"
SomeReturned == \E i \in 1..Len(tasks) : tasks[i].st = "returned"

\* C1: migrate_island conserves every island's length: from the call to its
\* return, and after it, every island is as long as it was when the list was
\* passed in, and the call does not raise.  (SpecMig)
C1_MigrationConservesSize ==
    pre # <<>> =>
        /\ pc # "failed"
        /\ Len(populations) = Len(pre)
        /\ \A i \in 1..Len(pre) : Len(populations[i]) = Len(pre[i])

\* two islands of four with duplicate genomes have exchanged two migrants each
C1_Witness ==
    /\ pc = "migrate"
    /\ mi > Len(populations)
    /\ Len(populations) = 2
    /\ num_migrate = 2
    /\ populations # pre
    /\ \E p, q \in 1..Len(pre[2]) : p # q /\ pre[2][p] = pre[2][q]

\* old_t became new_t by one iteration of the ring: the last k of new_t are k
\* best individuals of src, and what left old_t are k worst individuals of it
Exchanged(old_t, src, new_t, k) ==
    LET M == SubSeq(new_t, Len(new_t) - k + 1, Len(new_t))
        removed(x) == Count(old_t, x) + Count(M, x) - Count(new_t, x)
    IN /\ Len(new_t) = Len(old_t)
       /\ \A x \in EvaluatedInds :
             /\ Count(M, x) <= Count(src, x)
             /\ removed(x) >= 0
             /\ removed(x) <= Count(old_t, x)
       /\ \A x, y \in EvaluatedInds :
             /\ (Count(M, x) > 0 /\ Count(src, y) - Count(M, y) > 0)
                   => ValueLeq(x.fit, y.fit)
             /\ (removed(x) > 0 /\ Count(old_t, y) - removed(y) > 0)
                   => ValueLeq(y.fit, x.fit)

\* C2: each iteration of the migration round, for island i (as the round
\* finds it), puts the num_migrate best individuals of island i into island
\* (i+1) mod num_islands, removes that island's num_migrate worst ones, and
\* touches no other island.  (SpecMig)
C2_RingExchange ==
    [][(pc = "migrate" /\ mi <= Len(populations)) =>
          LET n == Len(populations)
              t == (mi % n) + 1
          IN /\ pc' = "migrate"
             /\ mi' = mi + 1
             /\ Len(populations') = n
             /\ \A j \in 1..n : j # t => populations'[j] = populations[j]
             /\ Exchanged(populations[t], populations[mi], populations'[t],
                          num_migrate)]_vars

\* the scenario of two islands of four at rate 0.5: island 0's top two have
\* arrived in island 1 and island 1 has changed
C2_Witness ==
    /\ pc = "migrate"
    /\ mi = 2
    /\ Len(populations) = 2
    /\ Len(pre[1]) = 4
    /\ migration_rate = 5
    /\ num_migrate = 2
    /\ SubSeq(populations[2], 3, 4) = selBest(pre[1], 2)
    /\ \A p \in 1..4 : Count(populations[2], pre[2][p]) < Count(pre[2], pre[2][p])

\* C3: at every synchronization boundary (after the partitioning, after a
\* fan-in, after a migration, at the return) the island sizes add up to
\* popSim.  (Spec)
C3_SizesAddUpToPopSim ==
    pc \in {"loop", "migrate", "done"} => SumSeq(IslandSizes) = popSim

\* C4: the population a task returns is as long as the island it was given.
\* (Spec)
C4_ReturnedSizeIsGivenSize ==
    \A i \in 1..Len(tasks) :
        tasks[i].st = "returned" => Len(tasks[i].pop) = Len(populations[i])

\* C5: the hall of fame entry island_model returns is at least as good as
\* every fitness value evaluated during the run.  (Spec)
C5_HofIsBestEverEvaluated ==
    pc = "done" => /\ Len(result[1].hof) = 1
                   /\ ValueLeq(result[1].hof[1].fit, observed)

\* C6: the hall of fame entry island_model returns is at least as good as
\* the best individual of every island's final population.  (Spec)
C6_GlobalBestIsMinOfIslandBests ==
    pc = "done" =>
        /\ Len(result[1].hof) = 1
        /\ \A i \in 1..Len(result[1].populations) :
              ValueLeq(result[1].hof[1].fit, BestValue(result[1].populations[i]))

\* a run returned with two islands, the second one holding the better best
C6_Witness ==
    /\ pc = "done"
    /\ Len(result[1].populations) = 2
    /\ ValueLess(BestValue(result[1].populations[2]),
                 BestValue(result[1].populations[1]))

\* C7: under eaMuPlusLambda the best fitness in the population a task
\* returns is no worse than the best fitness in the island it was given.
\* (Spec)
C7_PlusNeverWorsens ==
    selected_algorithm = "eaMuPlusLambda" =>
        \A i \in 1..Len(tasks) :
            tasks[i].st = "returned" =>
                ValueLeq(BestValue(tasks[i].pop),
                         BestValue(EvaluateAll(populations[i])))

\* C8: once a task of the round has raised, no step changes the islands, the
\* logs, the duplicate reports or the hall of fame, nothing is returned and
\* the coordinator only moves to the failure exit; and a run whose every
\* task must raise (unknown strategy name, empty islands) never reaches a
\* migration or a return.  (Spec)
C8_RoundFailsAtomically ==
    [][/\ (SomeRaised \/ pc = "failed") =>
             /\ populations' = populations
             /\ logs' = logs
             /\ all_duplicate_stats' = all_duplicate_stats
             /\ hof' = hof
             /\ result' = NoResult
             /\ pc' \in {pc, "failed"}
       /\ (\/ selected_algorithm \notin {"eaSimple", "eaMuPlusLambda", "eaMuCommaLambda"}
           \/ popSim < num_islands) =>
             /\ pc' \notin {"migrate", "done"}
             /\ result' = NoResult]_vars

\* the second round failed with one island evolved and the other one raised
C8_Witness ==
    /\ pc = "failed"
    /\ gen > 0
    /\ SomeRaised
    /\ SomeReturned
    /\ result = NoResult

\* C9: a second run on the same configuration, the same initial islands and
\* the same random streams returns the populations and the log of the first
\* run, whichever worker ran which island.  (SpecDet)
C9_RunsAgree ==
    (pc = "done" /\ first # <<>>) =>
        /\ result[1].populations = first.populations
        /\ result[1].combined_log = first.combined_log

\* the genome is num_positions long and every gene is a configuration index
WellFormed(genes) ==
    /\ Len(genes) = num_positions
    /\ \A p \in 1..Len(genes) : 0 <= genes[p] /\ genes[p] < num_rings_perm

AllWellFormed(islands) ==
    \A i \in 1..Len(islands) :
        \A p \in 1..Len(islands[i]) : WellFormed(islands[i][p].genes)

C11_ReportCountsDistinctGenomes ==
    pc = "counted" =>
        LET snapshot == populations[1]
            report == all_duplicate_stats[1][1]
            distinct == {snapshot[p].genes : p \in 1..Len(snapshot)}
            pct == report.duplicate_percentage
        IN /\ Len(snapshot) > 0
           /\ report.total_population = Len(snapshot)
           /\ report.unique_individuals = Cardinality(distinct)
           /\ report.duplicate_count = Len(snapshot) - Cardinality(distinct)
           /\ pct[2] > 0
           /\ pct[1] * Len(snapshot) = report.duplicate_count * 100 * pct[2]
           /\ 0 <= pct[1] /\ pct[1] <= 100 * pct[2]
           /\ (Cardinality(distinct) = 1 =>
                  /\ report.unique_individuals = 1
                  /\ report.duplicate_count = Len(snapshot) - 1)

\* ten copies of one genome were counted: 1 unique, 9 duplicates, 90 percent
C11_Witness ==
    /\ pc = "counted"
    /\ Len(populations[1]) = 10
    /\ \A p \in 1..10 : populations[1][p].genes = populations[1][1].genes
    /\ all_duplicate_stats[1][1].unique_individuals = 1
    /\ all_duplicate_stats[1][1].duplicate_count = 9
    /\ all_duplicate_stats[1][1].duplicate_percentage[1]
          = 90 * all_duplicate_stats[1][1].duplicate_percentage[2]

\* C12 as stated: with a strategy name other than the three, every call of
\* evolve_island fails with the configuration error (the ValueError of line
\* 101), none returns a population, a logbook or a duplicate report, and
\* island_model fails in its first round.
C12_AlwaysConfigurationError ==
    selected_algorithm \notin Algorithms =>
        /\ \A i \in 1..Len(tasks) :
              /\ tasks[i].st \in {"queued", "raised"}
              /\ tasks[i].log = <<>> /\ tasks[i].dup = <<>>
              /\ (tasks[i].st = "raised" => tasks[i].err = "ValueError")
        /\ pc \in {"start", "loop", "map", "failed"}
        /\ gen = 0

\* C13 as stated: the evaluator returns a fitness only for a gene list of
\* exactly num_positions genes, each a configuration index in
\* 0..num_rings_perm - 1; every other gene list makes it fail.
C13_InvalidGenomeFails ==
    pc = "evaluated" =>
        /\ Len(individual) = num_positions
        /\ \A p \in 1..Len(individual) : individual[p] \in Genes

\* C14: for every valid genome the evaluator returns
\* hw * ((max - min) / mean) * 1e6 + sw * |mean - T_target| * 1e6 over the
\* field of the genome, field[s] being the sum over the positions p of
\* table[s][p][genome[p]]; on a table of one value in every entry this is
\* sw * |mean - T_target| * 1e6.  (hw, sw in tenths, fields in 0.01 T; a
\* mean of zero has no quotient and is left out.)
C14_FitnessIsWeightedError ==
    pc = "evaluated" /\ individual \in Genomes =>
        LET sums == [s \in 1..sample_count |->
                        SumSeq([p \in 1..num_positions |->
                                   table[s][p][individual[p] + 1]])]
            total == SumSeq(sums)
            hi == MaxOf({sums[s] : s \in 1..sample_count})
            lo == MinOf({sums[s] : s \in 1..sample_count})
        IN total # 0 =>
              /\ fitness[2] > 0
              /\ fitness[1] * 10 * total * sample_count
                   = fitness[2] * (homogeneity_weight * (hi - lo) * sample_count
                                     * sample_count * PPM
                                   + field_strength_weight
                                     * Abs(total - T_target * sample_count)
                                     * total * PPMPerUnit)
              /\ (table \in {UniformTable(c) : c \in 0..MaxEntry} =>
                    fitness[1] * 10 * sample_count
                      = fitness[2] * field_strength_weight
                          * Abs(total - T_target * sample_count) * PPMPerUnit)

\* a valid genome was evaluated on shared_data with a field that is neither
\* uniform nor on target
C14_Witness ==
    /\ pc = "evaluated" /\ individual \in Genomes /\ table = shared_data
    /\ fitness \notin {NoFit, NaN, <<0, 1>>}
    /\ Field(individual, table)[1] # Field(individual, table)[2]

C15_MigrantsFromSnapshot ==
    [][(pc = "migrate" /\ mi <= Len(populations) /\ pc' = "migrate") =>
          LET n == Len(populations)
              t == (mi % n) + 1
              size == Len(populations'[t])
          IN SubSeq(populations'[t], size - num_migrate + 1, size)
               = selBest(pre[mi], num_migrate)]_vars

\* C16 as stated: a run that returns has made ceil(num_generations /
\* migration_interval) rounds, and every island has evolved exactly
\* num_generations generations in total (each logbook of a round holds the
\* record of generation 0 and one record per generation of that round).
C16_EveryIslandEvolvesG ==
    pc = "done" =>
        LET rounds == Len(logs) \div num_islands
        IN /\ rounds = (num_generations + migration_interval - 1)
                          \div migration_interval
           /\ \A i \in 1..num_islands :
                 SumSeq([r \in 1..rounds |->
                            Len(logs[(r - 1) * num_islands + i]) - 1])
                   = num_generations

\* C17: the rounds are fork-join barriers.  Migration starts only when every
\* island's task of the round has returned; while migration runs no task is
\* evolving and no task changes; the tasks of the next round are sent only
\* when the migration loop of the round has gone through every island; and a
\* task runs only between the sending and the collecting of its round.
C17_ForkJoinBarrier ==
    [][/\ (pc # "migrate" /\ pc' = "migrate") =>
             /\ pc = "map"
             /\ Len(tasks) = num_islands
             /\ \A i \in 1..Len(tasks) : tasks[i].st = "returned"
       /\ (pc = "migrate" \/ pc' = "migrate") =>
             /\ \A i \in 1..Len(tasks') : tasks'[i].st # "queued"
             /\ (pc = "migrate" => tasks' = tasks)
       /\ (pc # "map" /\ pc' = "map") =>
             /\ pc = "loop"
             /\ (gen > 0 => mi > Len(populations))
             /\ \A i \in 1..Len(tasks') : tasks'[i].pop = populations[i]
       /\ (tasks # <<>> /\ tasks' # <<>> /\ tasks' # tasks) =>
             /\ pc = "map" /\ pc' = "map"
             /\ populations' = populations]_vars

\* the migration of the second round is under way on two islands, after both
\* tasks of that round were collected
C17_Witness ==
    /\ pc = "migrate"
    /\ gen > 0
    /\ num_islands = 2
    /\ mi = 2
    /\ tasks = <<>>
    /\ Len(logs) = 2 * num_islands

\* C19: the logbooks and the duplicate reports are collected in the order
\* (round, island): when round r (counted from 0) is collected, r *
\* num_islands entries are there, they stay as they are, and the entry added
\* at place r * num_islands + i is what the task of island i returned, its
\* first report being that of island i as the round sent it, whatever order
\* the tasks ran in; island_model returns the lists in that order.
C19_ResultsInIslandOrder ==
    [][/\ (pc = "map" /\ pc' = "migrate") =>
             LET n == num_islands
                 base == (gen \div migration_interval) * n
             IN /\ Len(logs) = base /\ Len(all_duplicate_stats) = base
                /\ Len(logs') = base + n /\ Len(all_duplicate_stats') = base + n
                /\ \A k \in 1..base :
                      /\ logs'[k] = logs[k]
                      /\ all_duplicate_stats'[k] = all_duplicate_stats[k]
                /\ \A i \in 1..n :
                      /\ logs'[base + i] = tasks[i].log
                      /\ all_duplicate_stats'[base + i] = tasks[i].dup
                      /\ all_duplicate_stats'[base + i][1]
                           = collect_stats(populations[i], 0)
                      /\ all_duplicate_stats'[base + i][2]
                           = collect_stats(populations'[i], migration_interval)
       /\ (pc' = "done") =>
             /\ result'[1].all_duplicate_stats = all_duplicate_stats
             /\ result'[1].combined_log = Flatten(logs)
             /\ logs' = logs /\ all_duplicate_stats' = all_duplicate_stats]_vars

\* the second round of two islands has been collected and the two islands'
\* reports of that round differ
C19_Witness ==
    /\ pc = "migrate"
    /\ num_islands = 2
    /\ gen > 0
    /\ Len(all_duplicate_stats) = 4
    /\ all_duplicate_stats[3] # all_duplicate_stats[4]
    /\ all_duplicate_stats[1] # all_duplicate_stats[2]

\* C18 as stated: what the task of island i returns is decided by the
\* island it was sent and by island i's own random stream (the stream the
\* round's pool holds at place i when the round starts), whichever worker
\* runs the task and whatever the other tasks of the round do.
C18_OwnStreamDecides ==
    [][\A i \in 1..Len(tasks) :
          (pc = "map" /\ pc' = "map" /\ tasks'[i] # tasks[i]) =>
              LET own == trace.tape[Len(trace.tape)][i]
                  o == Pick(evolve_island(tasks[i].pop, migration_interval,
                                          selected_algorithm), own)
              IN IF o.st = "raised" THEN tasks'[i].st = "raised"
                 ELSE tasks'[i].st = "returned" /\ tasks'[i].pop = o.pop]_vars

\* C21: when floor(migration_rate * island size) is 0, migrate_island is a
\* no-op: at every point of the call and after its return every island holds
\* the individuals it held when the list was passed in, in the same order,
\* and the call does not raise.
C21_NoMigrantsNoChange ==
    (pre # <<>> /\ (migration_rate * Len(pre[1])) \div 10 = 0) =>
        /\ populations = pre
        /\ pc # "failed"

\* migrate_island has returned on two differing islands of three at rate 0.3,
\* where floor(0.9) = 0
C21_Witness ==
    /\ pc = "loop"
    /\ migration_rate = DefaultMigrationRate
    /\ Len(pre) = 2
    /\ Len(pre[1]) = 3
    /\ num_migrate = 0
    /\ pre[1] # pre[2]
    /\ BestValue(pre[1]) # BestValue(pre[2])

\* C23: when num_migrate is smaller than the island size, migration never
\* worsens an island's best fitness: at every point of the call and after
\* it, the lowest fitness value in each island is at most what it was when
\* the list was passed in, and so is the lowest value over all islands.
C23_MigrationKeepsIslandBest ==
    (pre # <<>> /\ pc # "failed" /\ Len(pre[1]) > 0
       /\ (migration_rate * Len(pre[1])) \div 10 < Len(pre[1])) =>
        /\ \A i \in 1..Len(pre) :
              ValueLeq(BestValue(populations[i]), BestValue(pre[i]))
        /\ ValueLeq(BestValue(Flatten(populations)), BestValue(Flatten(pre)))

\* migrate_island has returned, an island's best fitness has improved by an
\* arrival and the island that sent it has kept its best
C23_Witness ==
    /\ pc = "loop"
    /\ num_migrate > 0
    /\ Len(pre) >= 2
    /\ \E i \in 1..Len(pre) :
          ValueLess(BestValue(populations[i]), BestValue(pre[i]))
    /\ \E i \in 1..Len(pre) :
          /\ populations[i] # pre[i]
          /\ BestValue(populations[i]) = BestValue(pre[i])

\* C22 as stated: after a migration round no individual object is held by
\* two different islands, and none is in the populations island_model
\* returns.
C22_NoObjectInTwoIslands ==
    LET owned(islands) ==
            \A i, j \in 1..Len(islands) :
                i # j => \A p \in 1..Len(islands[i]) : \A q \in 1..Len(islands[j]) :
                            islands[i][p].id # islands[j][q].id
    IN /\ (pc = "loop" => owned(populations))
       /\ (pc = "done" => owned(result[1].populations))

=============================================================================
